---- MODULE Spec2Model ----
(***************************************************************************)
(* Model of the agent-routing chat scripts of ais-to-mule:                 *)
(*   src/tech-blogs/test.py  keyword router, conversation driver with a    *)
(*                           one-level handoff, document formatter         *)
(*   src/tech-blogs/app.py   the thread bookkeeping of main                *)
(* Texts are TLA+ strings; the string functions work on their characters   *)
(* (Len, SubSeq and \o on strings), as the Python code does.               *)
(***************************************************************************)
EXTENDS Integers, Sequences, FiniteSets, TLC

(***************************************************************************)
(* Python str primitives used by the code                                  *)
(***************************************************************************)

Char(s, i) == SubSeq(s, i, i)

UpperChars == <<"A","B","C","D","E","F","G","H","I","J","K","L","M",
                "N","O","P","Q","R","S","T","U","V","W","X","Y","Z">>

LowerChars == <<"a","b","c","d","e","f","g","h","i","j","k","l","m",
                "n","o","p","q","r","s","t","u","v","w","x","y","z">>

\* one character of str.lower(): an upper-case letter maps to its lower-case
\* letter, every other character to itself
LowerChar(c) ==
    IF \E k \in 1..Len(UpperChars) : UpperChars[k] = c
    THEN LowerChars[CHOOSE k \in 1..Len(UpperChars) : UpperChars[k] = c]
    ELSE c

RECURSIVE LowerFrom(_, _)
LowerFrom(s, i) ==
    IF i > Len(s) THEN "" ELSE LowerChar(Char(s, i)) \o LowerFrom(s, i + 1)

\* str.lower()
lower(s) == LowerFrom(s, 1)

\* Python's  needle in hay
Contains(needle, hay) ==
    \E i \in 1..(Len(hay) - Len(needle) + 1) :
        SubSeq(hay, i, i + Len(needle) - 1) = needle

\* str.find: the first index >= from where needle starts, 0 when there is none
Find(needle, hay, from) ==
    LET hits == { i \in from..(Len(hay) - Len(needle) + 1) :
                      SubSeq(hay, i, i + Len(needle) - 1) = needle }
    IN  IF hits = {} THEN 0 ELSE CHOOSE i \in hits : \A j \in hits : i <= j

\* str.startswith
StartsWith(s, prefix) ==
    Len(s) >= Len(prefix) /\ SubSeq(s, 1, Len(prefix)) = prefix

Whitespace == {" ", "\n", "\t"}

\* str.strip(): leading and trailing whitespace removed
strip(s) ==
    LET keep == { i \in 1..Len(s) : Char(s, i) \notin Whitespace }
    IN  IF keep = {} THEN ""
        ELSE SubSeq(s, CHOOSE i \in keep : \A j \in keep : i <= j,
                       CHOOSE i \in keep : \A j \in keep : i >= j)

\* str.split(sep): every occurrence of sep splits
RECURSIVE split(_, _)
split(s, sep) ==
    LET idx == Find(sep, s, 1)
    IN  IF idx = 0 THEN <<s>>
        ELSE <<SubSeq(s, 1, idx - 1)>>
                 \o split(SubSeq(s, idx + Len(sep), Len(s)), sep)

\* str.split(sep, 1): only the first occurrence of sep splits
split1(s, sep) ==
    LET idx == Find(sep, s, 1)
    IN  IF idx = 0 THEN <<s>>
        ELSE <<SubSeq(s, 1, idx - 1), SubSeq(s, idx + Len(sep), Len(s))>>

\* str.splitlines(): lines without their line ends; a final line end opens
\* no further (empty) line
splitlines(s) ==
    LET parts == split(s, "\n")
    IN  IF parts[Len(parts)] = "" THEN SubSeq(parts, 1, Len(parts) - 1)
        ELSE parts

(***************************************************************************)
(* Router (test.py)                                                        *)
(***************************************************************************)

AGENT_NAMES == <<"AIS Requirements", "AIS Architect", "AIS Developer">>

\* Python None for an optional string: <<>>; a string s is <<s>>
None == <<>>
Some(s) == <<s>>

\* Python truthiness of an optional string: None and "" are falsy
Truthy(v) == v /= None /\ v[1] /= ""

\* a router that tests "architecture" before "requirement"
detect_target_agent_architecture_first(message) ==
    LET m == lower(message)
    IN  IF Contains("architecture", m) THEN Some("AIS Architect")
        ELSE IF Contains("requirement", m) THEN Some("AIS Requirements")
        ELSE IF Contains("project", m) \/ Contains("integration", m)
             THEN Some("AIS Developer")
        ELSE None

detect_target_agent(message) ==
    LET m == lower(message)
    IN  IF Contains("requirement", m) THEN Some("AIS Requirements")
        ELSE IF Contains("architecture", m) THEN Some("AIS Architect")
        ELSE IF Contains("project", m) \/ Contains("integration", m)
             THEN Some("AIS Developer")
        ELSE None

trigger_phrases == <<"generate integration flow",
                     "create integration flow document",
                     "integration flow doc",
                     "integration flow documentation">>

should_generate_flow_doc(message) ==
    \E k \in 1..Len(trigger_phrases) : Contains(trigger_phrases[k], lower(message))

(***************************************************************************)
(* Document Formatter (test.py)                                            *)
(* A document is the sequence of its block elements, in the order the      *)
(* python-docx calls add them.                                             *)
(***************************************************************************)

TextRun(text, bold) == [text |-> text, bold |-> bold]

\* doc.add_heading(text, level)
Heading(text, level) ==
    [kind |-> "heading", level |-> level, style |-> "", runs |-> <<TextRun(text, FALSE)>>]

\* doc.add_paragraph(text, style=...)
Paragraph(text, style) ==
    [kind |-> "paragraph", level |-> -1, style |-> style, runs |-> <<TextRun(text, FALSE)>>]

\* doc.add_paragraph() followed by a bold run "key: " and a plain run
KeyValueParagraph(key, val) ==
    [kind |-> "paragraph", level |-> -1, style |-> "",
     runs |-> <<TextRun(strip(key) \o ": ", TRUE), TextRun(strip(val), FALSE)>>]

\* the body of the loop over body_lines, for one line
BodyLine(rawline) ==
    LET line == strip(rawline)
    IN  IF line = "" THEN <<>>
        ELSE IF Contains(":", line) /\ ~StartsWith(line, "<")
             THEN LET kv == split1(line, ":")
                  IN  <<KeyValueParagraph(kv[1], kv[2])>>
        ELSE <<Paragraph(line, "")>>

RECURSIVE BodyLines(_, _)
BodyLines(lines, i) ==
    IF i > Len(lines) THEN <<>>
    ELSE BodyLine(lines[i]) \o BodyLines(lines, i + 1)

\* the body of the loop over steps, for one segment of the split
StepSection(step) ==
    IF strip(step) = "" THEN <<>>
    ELSE LET lines       == splitlines(strip(step))
             header_line == lines[1]
             hs          == split1(header_line, ":")
             step_num    == IF Contains(":", header_line) THEN hs[1] ELSE header_line
             step_title  == IF Contains(":", header_line) THEN hs[2] ELSE ""
         IN  <<Heading("Step " \o strip(step_num) \o ": " \o strip(step_title), 2)>>
                 \o BodyLines(lines, 2)

RECURSIVE StepSections(_, _)
StepSections(steps, i) ==
    IF i > Len(steps) THEN <<>>
    ELSE StepSection(steps[i]) \o StepSections(steps, i + 1)

format_integration_flow_doc(title, content) ==
    <<Heading(IF title = "" THEN "Integration Flow" ELSE title, 0),
      Paragraph("Flow Breakdown", "Heading 1")>>
        \o StepSections(split(content, "Step "), 1)

\* generate_integration_flow_doc: the document that is saved and attached
\* (the file name and the write to generated_docs/ are not modelled)
generate_integration_flow_doc(content) ==
    format_integration_flow_doc("Integration Flow", content)

(***************************************************************************)
(* Handoff marker (test.py, on_message.parse_handoff)                      *)
(***************************************************************************)

HandoffMarker == "@handoff:"

\* re.search(r"@handoff:(.*?):(.*)", content): "." matches no line end, so
\* from a marker at p the first ":" of the same line closes group 1 and
\* group 2 runs to the end of that line; the leftmost marker that has such
\* a ":" is the match.
ColonAfter(content, p) ==
    LET start == p + Len(HandoffMarker)
        c     == Find(":", content, start)
    IN  IF c = 0 \/ Contains("\n", SubSeq(content, start, c - 1)) THEN 0 ELSE c

parse_handoff(content) ==
    LET ps == { p \in 1..(Len(content) - Len(HandoffMarker) + 1) :
                  /\ SubSeq(content, p, p + Len(HandoffMarker) - 1) = HandoffMarker
                  /\ ColonAfter(content, p) /= 0 }
    IN  IF ps = {} THEN <<None, None>>
        ELSE LET p   == CHOOSE q \in ps : \A r \in ps : q <= r
                 c   == ColonAfter(content, p)
                 nl  == Find("\n", content, c + 1)
                 eol == IF nl = 0 THEN Len(content) ELSE nl - 1
             IN  <<Some(strip(SubSeq(content, p + Len(HandoffMarker), c - 1))),
                   Some(strip(SubSeq(content, c + 1, eol)))>>

(***************************************************************************)
(* Bounds and input sets                                                   *)
(***************************************************************************)

\* on_message invocations (user messages) of one session under Spec; they may
\* overlap
MaxMessages == 2

\* user messages of one session under SpecExchange, where the properties of a
\* single exchange are checked
MaxExchanges == 1

\* words per generated input of the router and of the formatter
MaxWords == 2

Handlers == 1..MaxMessages

\* user messages typed into the chat
UserTexts == { "hello there",
               "Review the ARCHITECTURE",
               "Please Generate Integration Flow for orders",
               "project status",
               "integration flow doc of the requirement" }

TextBlock(value) == [type |-> "text", value |-> value]
ImageBlock == [type |-> "image_file", value |-> ""]

\* the content of the assistant Message a Run may leave on the thread
ReplyContents ==
    { <<TextBlock("Requirements: the flow needs an HTTP trigger")>>,
      <<TextBlock("@handoff:AIS Architect:What connector should I use?")>>,
      <<TextBlock("@handoff: :no target")>>,
      <<ImageBlock>>,
      <<ImageBlock, TextBlock("Step 1: Validate\nTrigger: HTTP"),
        TextBlock("@handoff:AIS Architect:ignored")>> }

\* what create_and_process_run does: it raises, or it returns with the Run
\* having left no Message (a failed or empty Run), or one assistant Message
RunOutcomes ==
    {[raised |-> TRUE, reply |-> <<>>], [raised |-> FALSE, reply |-> <<>>]}
        \cup { [raised |-> FALSE, reply |-> <<c>>] : c \in ReplyContents }

\* what list_agents returns (the names on the remote roster), when it returns
Rosters == { {"AIS Requirements", "AIS Architect", "AIS Developer"},
             {"AIS Requirements", "AIS Developer", "AIS Tester"},
             {} }

(***************************************************************************)
(* State                                                                   *)
(***************************************************************************)

VARIABLES
    script,         \* what this behaviour runs: "test" (test.py), "app" (app.py),
                    \* "router" / "formatter" (one application of a pure function)
    \* ---- pure functions
    fnInput,        \* the argument
    fnOutput,       \* <<>> before the call, <<result>> after it
    \* ---- test.py: module and session state
    AGENT_LOOKUP,   \* the keys of the global name -> agent mapping
    thread,         \* cl.user_session "thread": NoThread or a thread id
    setup_state,    \* "init", "started", "noagents", "raised" (setup propagated)
    setup_sent,     \* the chat messages setup sent
    \* ---- remote stores
    threadsCreated, \* Thread Store: number of threads created (ids 1..n)
    threadsDeleted, \* Thread Store: ids deleted
    store,          \* Message Store: the Messages of the session thread, oldest first
    clock,          \* created_at of the newest Message
    nruns,          \* Run Executor: number of Runs started (ids 1..n)
    \* ---- test.py: one on_message invocation per user message
    pc,             \* "idle", "run", "handoff", "done"
    user_input,
    agent,          \* None or Some(name of the routed agent)
    messages,       \* on_message's sorted_messages (<<>> before the read back)
    content,        \* None or Some(reply text): the first text block
    target,         \* parse_handoff(content)[1]
    question,       \* parse_handoff(content)[2]
    sent,           \* the chat messages the invocation sent, in order
    appended,       \* the Messages the invocation appended to the thread
    started,        \* the Runs the invocation started: [id, agent, raised, replied]
    overlap,        \* an invocation has started while another was between its sends
    \* ---- app.py: session state and main invocations
    new_threads,    \* cl.user_session "new_threads": None or Some(thread id)
    delete_threads, \* cl.user_session "delete_threads": None or Some(list)
    current_agent,  \* cl.user_session "current_agent"
    input_items,    \* length of cl.user_session "input_items"
    app_state,      \* "init", "started", "raised" (on_chat_start propagated)
    apc,            \* main invocations: "idle", "thinking", "retrieve",
                    \* "housekeeping", "done", "raised" (main propagated)
    main_agent      \* main's local current_agent

fnVars   == <<fnInput, fnOutput>>
testVars == <<AGENT_LOOKUP, thread, setup_state, setup_sent, store, clock, nruns,
              pc, user_input, agent, messages, content, target, question, sent,
              appended, started, overlap>>
appVars  == <<new_threads, delete_threads, current_agent, input_items, app_state,
              apc, main_agent>>
vars     == <<script, fnInput, fnOutput, AGENT_LOOKUP, thread, setup_state, setup_sent,
              threadsCreated, threadsDeleted, store, clock, nruns,
              pc, user_input, agent, messages, content, target, question, sent,
              appended, started, overlap,
              new_threads, delete_threads, current_agent, input_items, app_state,
              apc, main_agent>>

NoThread == 0

\* the state after the module is loaded, before the chat starts
InitRest ==
    /\ fnInput = "" /\ fnOutput = <<>>
    /\ AGENT_LOOKUP = {} /\ thread = NoThread
    /\ setup_state = "init" /\ setup_sent = <<>>
    /\ threadsCreated = 0 /\ threadsDeleted = {}
    /\ store = <<>> /\ clock = 0 /\ nruns = 0
    /\ pc = [h \in Handlers |-> "idle"]
    /\ user_input = [h \in Handlers |-> ""]
    /\ agent = [h \in Handlers |-> None]
    /\ messages = [h \in Handlers |-> <<>>]
    /\ content = [h \in Handlers |-> None]
    /\ target = [h \in Handlers |-> None]
    /\ question = [h \in Handlers |-> None]
    /\ sent = [h \in Handlers |-> <<>>]
    /\ appended = [h \in Handlers |-> <<>>]
    /\ started = [h \in Handlers |-> <<>>]
    /\ overlap = FALSE
    /\ new_threads = None /\ delete_threads = None
    /\ current_agent = "Triage Agent" /\ input_items = 0
    /\ app_state = "init"
    /\ apc = [h \in Handlers |-> "idle"]
    /\ main_agent = [h \in Handlers |-> ""]

Init == script \in {"test", "app"} /\ InitRest

(***************************************************************************)
(* Remote stores as the driver uses them                                   *)
(***************************************************************************)

\* a Message of the thread; run is the id of the Run that created it (0 for
\* a Message submitted with create_message)
Message(role, blocks, created_at, run) ==
    [role |-> role, content |-> blocks, created_at |-> created_at, run |-> run]

\* create_message(thread_id, role="user", content=text)
create_message(st, text, now) ==
    Append(st, Message("user", <<TextBlock(text)>>, now, 0))

\* the Messages on the thread after create_and_process_run returned
process_run(st, out, now, runId) ==
    IF out.reply = <<>> THEN st
    ELSE Append(st, Message("assistant", out.reply[1], now, runId))

\* list_messages(thread_id).data: the service lists newest first
list_messages(st) == [i \in 1..Len(st) |-> st[Len(st) + 1 - i]]

\* sorted(messages.data, key=lambda x: x.created_at): a stable insertion sort
RECURSIVE InsertByCreatedAt(_, _)
InsertByCreatedAt(sorted, m) ==
    IF sorted = <<>> THEN <<m>>
    ELSE IF sorted[Len(sorted)].created_at <= m.created_at THEN Append(sorted, m)
    ELSE Append(InsertByCreatedAt(SubSeq(sorted, 1, Len(sorted) - 1), m),
                sorted[Len(sorted)])

RECURSIVE SortedPrefix(_, _)
SortedPrefix(data, n) ==
    IF n = 0 THEN <<>> ELSE InsertByCreatedAt(SortedPrefix(data, n - 1), data[n])

sorted_by_created_at(data) == SortedPrefix(data, Len(data))

\* a read back that takes the newest Message whatever its role
newest_message(sorted_messages) ==
    IF sorted_messages = <<>> THEN <<>> ELSE <<sorted_messages[Len(sorted_messages)]>>

\* next((m for m in reversed(sorted_messages) if m.role == "assistant"), None)
newest_assistant(sorted_messages) ==
    LET idx == { i \in 1..Len(sorted_messages) : sorted_messages[i].role = "assistant" }
    IN  IF idx = {} THEN <<>>
        ELSE <<sorted_messages[CHOOSE i \in idx : \A j \in idx : i >= j]>>

\* the value of the first content block of type "text", None when there is none
first_text(msg) ==
    LET idx == { i \in 1..Len(msg.content) : msg.content[i].type = "text" }
    IN  IF idx = {} THEN None
        ELSE Some(msg.content[CHOOSE i \in idx : \A j \in idx : i <= j].value)

(***************************************************************************)
(* test.py: setup (on_chat_start)                                          *)
(***************************************************************************)

\* a chat message sent to the user: cl.Message(...).send()
Ui(kind, author, text, elements) ==
    [kind |-> kind, author |-> author, text |-> text, elements |-> elements]

\* get_agents_by_name: the names of AGENT_NAMES on the roster; a failing
\* list_agents is printed and leaves the list empty
get_agents_by_name(listing) ==
    IF listing.raised THEN {}
    ELSE { AGENT_NAMES[k] : k \in { j \in 1..Len(AGENT_NAMES) : AGENT_NAMES[j] \in listing.names } }

Listings == {[raised |-> TRUE, names |-> {}]}
                \cup { [raised |-> FALSE, names |-> r] : r \in Rosters }

setup ==
    /\ script = "test" /\ setup_state = "init"
    /\ \E listing \in Listings, created \in BOOLEAN :
         LET lookup == get_agents_by_name(listing)
         IN  /\ AGENT_LOOKUP' = lookup
             /\ IF lookup = {}
                THEN /\ setup_sent' = <<Ui("NoAgents", "", "No agents found. Please check your Foundry setup.", <<>>)>>
                     /\ setup_state' = "noagents"
                     /\ UNCHANGED <<thread, threadsCreated>>
                ELSE IF ~created
                \* create_thread raises: no try around it, the exception leaves setup
                THEN /\ setup_state' = "raised"
                     /\ UNCHANGED <<thread, threadsCreated, setup_sent>>
                ELSE /\ threadsCreated' = threadsCreated + 1
                     /\ thread' = threadsCreated + 1
                     /\ setup_sent' = <<Ui("Started", "", "Multi-agent session started. Type a prompt to get started.", <<>>)>>
                     /\ setup_state' = "started"
    /\ UNCHANGED <<script, fnVars, appVars, threadsDeleted, store, clock, nruns,
                   pc, user_input, agent, messages, content, target, question,
                   sent, appended, started, overlap>>

(***************************************************************************)
(* test.py: on_message.  The handler runs on the event loop; it gives up   *)
(* control only at an  await cl.Message(...).send(), so the code between   *)
(* two sends is one step (time.sleep blocks the loop).                     *)
(***************************************************************************)

\* a lookup that falls back to a default agent instead of giving None
lookup_agent_with_default(agent_name, lookup) ==
    IF agent_name /= None /\ agent_name[1] \in lookup THEN agent_name
    ELSE IF lookup = {} THEN None
    ELSE Some(CHOOSE n \in lookup : TRUE)

\* AGENT_LOOKUP.get(agent_name) if agent_name else None
lookup_agent(agent_name, lookup) ==
    IF agent_name /= None /\ agent_name[1] \in lookup THEN agent_name ELSE None

\* if target_agent_name and handoff_question
is_handoff(t, q) == Truthy(t) /\ Truthy(q)

\* a document test that forgets the agent
wants_document_any_agent(agent_name, text) == should_generate_flow_doc(text)

\* if agent.name == "AIS Developer" and should_generate_flow_doc(user_input)
wants_document(agent_name, text) ==
    agent_name = "AIS Developer" /\ should_generate_flow_doc(text)

\* the chat message for a reply without handoff: the attached document or the text
reply_message(agent_name, text, reply) ==
    IF wants_document(agent_name, text)
    THEN Ui("Document", agent_name,
            "Integration flow document generated (click to download):",
            generate_integration_flow_doc(reply))
    ELSE Ui("Reply", agent_name, reply, <<>>)

\* what agent_to_agent_ask returns after reading the thread back
handoff_response(sorted_messages) ==
    LET assistant_msg == newest_assistant(sorted_messages)
    IN  IF assistant_msg /= <<>>
        THEN (IF first_text(assistant_msg[1]) = None THEN Some("")
              ELSE first_text(assistant_msg[1]))
        ELSE None

\* a handoff that starts the Run for the asking agent
handoff_run_asking_agent(asking_agent_name, responding_agent_name) == asking_agent_name

\* agent_id=responding_agent.id: the agent the handoff Run is started for
handoff_run_agent(asking_agent_name, responding_agent_name) == responding_agent_name

\* the chat message after the handoff
handoff_message(t, response) ==
    IF Truthy(response) THEN Ui("HandoffResponse", t, response[1], <<>>)
    ELSE Ui("HandoffNotAnswered", t, "did not respond to the follow-up.", <<>>)

\* the help text of lines 181-182 (its back quotes left out)
HelpText ==
    "Could not determine which agent to use. Try including keywords like requirements, architecture, or project."

\* user messages are handled in the order they arrive: invocation h starts
\* after invocation h - 1 has started
InOrder(p, h) == IF h = 1 THEN TRUE ELSE p[h - 1] /= "idle"

Finish(h, msgs) ==
    /\ sent' = [sent EXCEPT ![h] = sent[h] \o msgs]
    /\ pc' = [pc EXCEPT ![h] = "done"]

\* lines 169-194: up to the send of "<agent> is processing..."
OnMessageStart(h, text) ==
    /\ script = "test" /\ setup_state /= "init"
    /\ pc[h] = "idle" /\ InOrder(pc, h)
    /\ user_input' = [user_input EXCEPT ![h] = text]
    /\ overlap' = (overlap \/ \E g \in Handlers : pc[g] \in {"run", "handoff"})
    /\ IF thread = NoThread
       THEN /\ Finish(h, <<Ui("NoActiveThread", "", "No active thread.", <<>>)>>)
            /\ UNCHANGED <<agent, store, clock, appended>>
       ELSE LET a == lookup_agent(detect_target_agent(text), AGENT_LOOKUP)
            IN  /\ agent' = [agent EXCEPT ![h] = a]
                /\ IF a = None
                   THEN /\ Finish(h, <<Ui("Help", "", HelpText, <<>>)>>)
                        /\ UNCHANGED <<store, clock, appended>>
                   ELSE \E ok \in BOOLEAN :
                          IF ok
                          THEN /\ store' = create_message(store, text, clock + 1)
                               /\ clock' = clock + 1
                               /\ appended' = [appended EXCEPT ![h] = Append(@, text)]
                               /\ sent' = [sent EXCEPT ![h] =
                                             Append(@, Ui("Processing", a[1], "is processing...", <<>>))]
                               /\ pc' = [pc EXCEPT ![h] = "run"]
                          ELSE /\ Finish(h, <<Ui("FailedToSend", "", "Failed to send message to thread", <<>>)>>)
                               /\ UNCHANGED <<store, clock, appended>>
    /\ UNCHANGED <<script, fnVars, appVars, AGENT_LOOKUP, thread, setup_state,
                   setup_sent, threadsCreated, threadsDeleted, nruns, messages,
                   content, target, question, started>>

ErrorRunning(a, why) == Ui("ErrorRunning", a, why, <<>>)

RunRecord(id, a, out) ==
    [id |-> id, agent |-> a, raised |-> out.raised, replied |-> out.reply /= <<>>]

\* lines 196-260: from create_and_process_run to the next send
OnMessageRun(h) ==
    /\ script = "test" /\ pc[h] = "run"
    /\ \E out \in RunOutcomes, listed \in BOOLEAN :
         LET a      == agent[h][1]
             runId  == nruns + 1
             after  == process_run(store, out, clock + 1, runId)
             sorted == sorted_by_created_at(list_messages(after))
             am     == newest_assistant(sorted)
             txt    == IF am = <<>> THEN None ELSE first_text(am[1])
             ho     == IF txt = None THEN <<None, None>> ELSE parse_handoff(txt[1])
         IN  /\ nruns' = runId
             /\ started' = [started EXCEPT ![h] = Append(@, RunRecord(runId, a, out))]
             /\ IF out.raised
                THEN /\ Finish(h, <<ErrorRunning(a, "create_and_process_run failed")>>)
                     /\ UNCHANGED <<store, clock, messages, content, target, question>>
                ELSE /\ store' = after
                     /\ clock' = IF out.reply = <<>> THEN clock ELSE clock + 1
                     /\ IF ~listed
                        THEN /\ Finish(h, <<ErrorRunning(a, "list_messages failed")>>)
                             /\ UNCHANGED <<messages, content, target, question>>
                        ELSE /\ messages' = [messages EXCEPT ![h] = sorted]
                             /\ content' = [content EXCEPT ![h] = txt]
                             /\ IF txt = None
                                THEN /\ Finish(h, <<Ui("NoReply", "", "No reply found from the agent.", <<>>)>>)
                                     /\ UNCHANGED <<target, question>>
                                ELSE /\ target' = [target EXCEPT ![h] = ho[1]]
                                     /\ question' = [question EXCEPT ![h] = ho[2]]
                                     /\ IF is_handoff(ho[1], ho[2])
                                        THEN /\ sent' = [sent EXCEPT ![h] =
                                                  Append(@, Ui("HandoffNotice", a, ho[2][1], <<ho[1][1]>>))]
                                             /\ pc' = [pc EXCEPT ![h] = "handoff"]
                                        ELSE Finish(h, <<reply_message(a, user_input[h], txt[1])>>)
    /\ UNCHANGED <<script, fnVars, appVars, AGENT_LOOKUP, thread, setup_state,
                   setup_sent, threadsCreated, threadsDeleted, user_input, agent,
                   appended, overlap>>

\* lines 221-236 with agent_to_agent_ask (137-167), which holds no await
OnMessageHandoff(h) ==
    /\ script = "test" /\ pc[h] = "handoff"
    /\ \E ok \in BOOLEAN, out \in RunOutcomes, listed \in BOOLEAN :
         LET a      == agent[h][1]
             t      == target[h][1]
             q      == question[h][1]
             runId  == nruns + 1
             asked  == create_message(store, q, clock + 1)
             after  == process_run(asked, out, clock + 2, runId)
             sorted == sorted_by_created_at(list_messages(after))
         IN  IF t \notin AGENT_LOOKUP
             \* AGENT_LOOKUP[responding_agent_name] raises KeyError inside the try
             THEN /\ Finish(h, <<ErrorRunning(a, "KeyError")>>)
                  /\ UNCHANGED <<store, clock, nruns, started, appended>>
             ELSE IF ~ok
             THEN /\ Finish(h, <<ErrorRunning(a, "create_message failed")>>)
                  /\ UNCHANGED <<store, clock, nruns, started, appended>>
             ELSE /\ appended' = [appended EXCEPT ![h] = Append(@, q)]
                  /\ nruns' = runId
                  /\ started' = [started EXCEPT ![h] =
                                   Append(@, RunRecord(runId, handoff_run_agent(a, t), out))]
                  /\ IF out.raised
                     THEN /\ store' = asked
                          /\ clock' = clock + 1
                          /\ Finish(h, <<ErrorRunning(a, "create_and_process_run failed")>>)
                     ELSE /\ store' = after
                          /\ clock' = IF out.reply = <<>> THEN clock + 1 ELSE clock + 2
                          /\ IF ~listed
                             THEN Finish(h, <<ErrorRunning(a, "list_messages failed")>>)
                             ELSE Finish(h, <<handoff_message(t, handoff_response(sorted))>>)
    /\ UNCHANGED <<script, fnVars, appVars, AGENT_LOOKUP, thread, setup_state,
                   setup_sent, threadsCreated, threadsDeleted, user_input, agent,
                   messages, content, target, question, overlap>>

(***************************************************************************)
(* app.py: on_chat_start and main.  main is modelled from its own entry;   *)
(* its steps end at its awaits (send, retrieve_documents, update).         *)
(***************************************************************************)

\* the one key of the new_threads dict
FAQ_AGENT_ID == "FAQ_AGENT_ID"

EmptyDict == [k \in {} |-> 0]

Range(f) == { f[x] : x \in DOMAIN f }

\* lines 302-318
on_chat_start ==
    /\ script = "app" /\ app_state = "init"
    /\ current_agent' = "Triage Agent"
    /\ input_items' = 0
    /\ \E created \in BOOLEAN :
         IF created
         THEN /\ threadsCreated' = threadsCreated + 1
              /\ new_threads' = Some([k \in {FAQ_AGENT_ID} |-> threadsCreated + 1])
              /\ app_state' = "started"
         \* create_thread raises: nothing catches it
         ELSE /\ app_state' = "raised"
              /\ UNCHANGED <<threadsCreated, new_threads>>
    /\ UNCHANGED <<script, fnVars, testVars, threadsDeleted, delete_threads, apc, main_agent>>

\* the agents a streamed run that starts at an agent can end at (handoffs=)
LastAgents(a) ==
    IF a = "Triage Agent"
    THEN {"Triage Agent", "AIS RequirementsAgent", "AIS CreativityAgent"}
    ELSE IF a = "AIS RequirementsAgent"
    THEN {"AIS RequirementsAgent", "AIS CreativityAgent"}
    ELSE {a}

\* lines 215-221: the session reads, up to the send of "thinking..."
MainEnter(h) ==
    /\ script = "app" /\ app_state /= "init"
    /\ apc[h] = "idle" /\ InOrder(apc, h)
    /\ main_agent' = [main_agent EXCEPT ![h] = current_agent]
    /\ apc' = [apc EXCEPT ![h] = "thinking"]
    /\ UNCHANGED <<script, fnVars, testVars, threadsCreated, threadsDeleted,
                   new_threads, delete_threads, current_agent, input_items, app_state>>

\* lines 225-228: the delete list is set to the empty list, then the search is awaited
MainBegin(h) ==
    /\ script = "app" /\ apc[h] = "thinking"
    /\ delete_threads' = Some(<<>>)
    /\ apc' = [apc EXCEPT ![h] = "retrieve"]
    /\ UNCHANGED <<script, fnVars, testVars, threadsCreated, threadsDeleted,
                   new_threads, current_agent, input_items, app_state, main_agent>>

\* lines 228-276: the search result, the streamed run, up to msg_final.update()
MainRun(h) ==
    /\ script = "app" /\ apc[h] = "retrieve"
    /\ \E retrieved \in BOOLEAN, ran \in BOOLEAN :
         IF ~retrieved
         \* retrieve_documents raises outside the try: main is left
         THEN /\ apc' = [apc EXCEPT ![h] = "raised"]
              /\ UNCHANGED <<current_agent, input_items>>
         ELSE /\ apc' = [apc EXCEPT ![h] = "housekeeping"]
              /\ IF ran
                 THEN /\ \E last \in LastAgents(main_agent[h]) : current_agent' = last
                      \* result.to_input_list(): the two inputs and the output
                      /\ input_items' = input_items + 3
                 ELSE /\ input_items' = input_items + 2
                      /\ UNCHANGED current_agent
    /\ UNCHANGED <<script, fnVars, testVars, threadsCreated, threadsDeleted,
                   new_threads, delete_threads, app_state, main_agent>>

\* cl.user_session.get("delete_threads") or []
delete_list(session_value) ==
    IF session_value = None THEN <<>> ELSE session_value[1]

\* cl.user_session.get("new_threads") or {}
new_threads_dict(session_value) ==
    IF session_value = None THEN EmptyDict ELSE session_value[1]

\* a recreation test that is always satisfied
should_recreate_always(thread_id, to_delete) == TRUE

\* if new_threads[key] in delete_threads
should_recreate(thread_id, to_delete) == thread_id \in Range(to_delete)

\* lines 279-297: the deletion loop, the recreation loop, the session write
MainHousekeeping(h) ==
    /\ script = "app" /\ apc[h] = "housekeeping"
    /\ LET to_delete == delete_list(delete_threads)
           nt        == new_threads_dict(new_threads)
           stale     == { k \in DOMAIN nt : should_recreate(nt[k], to_delete) }
       IN  \* delete_thread errors are printed: any part of the list may survive
           /\ \E gone \in SUBSET Range(to_delete) :
                threadsDeleted' = threadsDeleted \cup gone
           /\ IF stale = {}
              THEN /\ new_threads' = Some(nt)
                   /\ apc' = [apc EXCEPT ![h] = "done"]
                   /\ UNCHANGED threadsCreated
              ELSE \E created \in BOOLEAN :
                     IF created
                     THEN /\ threadsCreated' = threadsCreated + Cardinality(stale)
                          /\ new_threads' =
                               Some([k \in DOMAIN nt |->
                                        IF k \in stale THEN threadsCreated + 1 ELSE nt[k]])
                          /\ apc' = [apc EXCEPT ![h] = "done"]
                     \* create_thread raises in the loop: main is left
                     ELSE /\ apc' = [apc EXCEPT ![h] = "raised"]
                          /\ UNCHANGED <<threadsCreated, new_threads>>
    /\ UNCHANGED <<script, fnVars, testVars, delete_threads, current_agent,
                   input_items, app_state, main_agent>>

(***************************************************************************)
(* One application of a pure function to a generated input                 *)
(***************************************************************************)

RouterWords == {"hello", "Requirement", "REQUIRE", "ments", "architecture",
                "Project", "INTEGRATION", "requirements"}

FormatterWords == {"Step 1: Validate", "Trigger: HTTP", "hello", "",
                   "<to:queue>", "Step ", " Next Step 2", "  "}

RECURSIVE Join(_, _)
Join(ws, sep) ==
    IF ws = <<>> THEN ""
    ELSE IF Len(ws) = 1 THEN ws[1]
    ELSE ws[1] \o sep \o Join(Tail(ws), sep)

WordSeqs(words) == UNION { [1..n -> words] : n \in 0..MaxWords }

RouterInputs == { Join(ws, sep) : ws \in WordSeqs(RouterWords), sep \in {"", " "} }

FormatterInputs == { Join(ws, "\n") : ws \in WordSeqs(FormatterWords) }

InitRouter == script = "router" /\ InitRest

InitFormatter == script = "formatter" /\ InitRest

ChooseInput ==
    /\ script \in {"router", "formatter"}
    /\ fnInput = "" /\ fnOutput = <<>>
    /\ fnInput' \in (IF script = "router" THEN RouterInputs ELSE FormatterInputs) \ {""}
    /\ UNCHANGED <<script, fnOutput, testVars, appVars, threadsCreated, threadsDeleted>>

ApplyDetect ==
    /\ script = "router" /\ fnOutput = <<>>
    /\ fnOutput' = <<detect_target_agent(fnInput)>>
    /\ UNCHANGED <<script, fnInput, testVars, appVars, threadsCreated, threadsDeleted>>

ApplyFormat ==
    /\ script = "formatter" /\ fnOutput = <<>>
    /\ fnOutput' = <<format_integration_flow_doc("", fnInput)>>
    /\ UNCHANGED <<script, fnInput, testVars, appVars, threadsCreated, threadsDeleted>>

(***************************************************************************)
(* Specifications                                                          *)
(***************************************************************************)

Next ==
    \/ setup
    \/ \E h \in Handlers, text \in UserTexts : OnMessageStart(h, text)
    \/ \E h \in Handlers : OnMessageRun(h)
    \/ \E h \in Handlers : OnMessageHandoff(h)
    \/ on_chat_start
    \/ \E h \in Handlers : MainEnter(h)
    \/ \E h \in Handlers : MainBegin(h)
    \/ \E h \in Handlers : MainRun(h)
    \/ \E h \in Handlers : MainHousekeeping(h)

Spec == Init /\ [][Next]_vars

\* the sessions of Spec that send at most MaxExchanges user messages
Exchanges == { h \in Handlers : h <= MaxExchanges }

NextExchange ==
    \/ setup
    \/ \E h \in Exchanges, text \in UserTexts : OnMessageStart(h, text)
    \/ \E h \in Exchanges : OnMessageRun(h)
    \/ \E h \in Exchanges : OnMessageHandoff(h)
    \/ on_chat_start
    \/ \E h \in Exchanges : MainEnter(h)
    \/ \E h \in Exchanges : MainBegin(h)
    \/ \E h \in Exchanges : MainRun(h)
    \/ \E h \in Exchanges : MainHousekeeping(h)

SpecExchange == Init /\ [][NextExchange]_vars

NextRouter == ChooseInput \/ ApplyDetect

SpecRouter == InitRouter /\ [][NextRouter]_vars

NextFormatter == ChooseInput \/ ApplyFormat

SpecFormatter == InitFormatter /\ [][NextFormatter]_vars

(***************************************************************************)
(* Properties                                                              *)
(***************************************************************************)

\* kw (lower case) occurs in text when the case of letters is ignored
ContainsCI(kw, text) ==
    \E i \in 1..(Len(text) - Len(kw) + 1) :
        \A j \in 1..Len(kw) : LowerChar(Char(text, i + j - 1)) = Char(kw, j)

Last(sq) == sq[Len(sq)]

\* ---- C1 ----------------------------------------------------------------
\* the fixed-priority rule of the router, read off the text case-insensitively
RoutingRule(text) ==
    IF ContainsCI("requirement", text) THEN Some("AIS Requirements")
    ELSE IF ContainsCI("architecture", text) THEN Some("AIS Architect")
    ELSE IF ContainsCI("project", text) \/ ContainsCI("integration", text)
         THEN Some("AIS Developer")
    ELSE None

\* C1: for every input text detect_target_agent returns the result of the
\* case-insensitive fixed-priority rule requirement > architecture >
\* project/integration, and none when no keyword occurs.
C1_RouterRule ==
    fnOutput /= <<>> => fnOutput[1] = RoutingRule(fnInput)

\* a text where "architecture" and a capitalised "Requirement" co-occur was routed
C1_Witness ==
    /\ script = "router" /\ fnOutput = <<Some("AIS Requirements")>>
    /\ ContainsCI("architecture", fnInput)
    /\ ~Contains("requirement", fnInput)

\* ---- C7 ----------------------------------------------------------------
\* C7: for every content without the delimiter "Step " the formatter produces
\* the title heading and the "Flow Breakdown" heading only, no step section.
C7_NoDelimiterNoSections ==
    (script = "formatter" /\ fnOutput /= <<>> /\ ~Contains("Step ", fnInput))
        => fnOutput[1] = <<Heading("Integration Flow", 0),
                           Paragraph("Flow Breakdown", "Heading 1")>>

\* ---- shared by the driver's properties --------------------------------------
Kinds(h) == { sent[h][i].kind : i \in 1..Len(sent[h]) }

\* the assistant Messages of a list that no assistant Message of it is newer than
NewestAssistants(msgs) ==
    { i \in 1..Len(msgs) :
        /\ msgs[i].role = "assistant"
        /\ \A j \in 1..Len(msgs) :
             msgs[j].role = "assistant" => msgs[j].created_at <= msgs[i].created_at }

HasTextBlock(m) == \E k \in 1..Len(m.content) : m.content[k].type = "text"

\* the read back holds no assistant Message, or the newest one has no text block
NoTextReply(msgs) == \A i \in NewestAssistants(msgs) : ~HasTextBlock(msgs[i])

\* on_message of invocation h has read the thread back after its Run
ReadBack(h) == messages[h] /= <<>>

\* ---- C2 ----------------------------------------------------------------
\* C2: when the read back after the Run of an exchange holds no assistant
\* Message, or the newest assistant Message has no text block, on_message ends
\* with "No reply found from the agent." and sends no "Error running" message.
C2_EmptyReply ==
    \A h \in Handlers :
        (pc[h] = "done" /\ ReadBack(h) /\ NoTextReply(messages[h]))
            => /\ Last(sent[h]).kind = "NoReply"
               /\ "ErrorRunning" \notin Kinds(h)

\* an exchange whose Run left nothing read back no assistant Message and
\* ended with "No reply found from the agent."
C2_Witness ==
    \E h \in Handlers :
        /\ pc[h] = "done" /\ ReadBack(h) /\ NewestAssistants(messages[h]) = {}
        /\ Len(started[h]) = 1 /\ ~started[h][1].raised
        /\ Last(sent[h]).kind = "NoReply"

\* ---- C3 ----------------------------------------------------------------
\* the handoff of invocation h went through and its Run left no Message
HandoffUnanswered(h) ==
    /\ pc[h] = "done" /\ Len(started[h]) = 2
    /\ ~started[h][2].raised /\ ~started[h][2].replied
    /\ Last(sent[h]).kind /= "ErrorRunning"

\* C3: when a handoff is performed and the target agent produces no reply of
\* its own, the exchange ends with "<target> did not respond to the
\* follow-up."; no "Response from <target>" is shown.
C3_HandoffNotAnswered ==
    \A h \in Handlers :
        HandoffUnanswered(h) => Last(sent[h]).kind = "HandoffNotAnswered"

\* ---- C4 ----------------------------------------------------------------
\* C4: the reply text an exchange obtains comes from an assistant Message
\* created by the Run that exchange started, never from an earlier exchange's.
C4_ReplyOfOwnRun ==
    \A h \in Handlers :
        (~overlap /\ pc[h] \in {"handoff", "done"} /\ content[h] /= None)
            => \A i \in NewestAssistants(messages[h]) :
                   messages[h][i].run = started[h][1].id

\* ---- C5 ----------------------------------------------------------------
\* C5: every failure of a remote call is turned into a chat message where it
\* is called: none leaves setup or on_message, none is retried (a handler
\* starts at most its two Runs), and the user Messages an invocation appended
\* stay on the thread.
C5_RemoteFailuresCaught ==
    /\ setup_state /= "raised"
    /\ \A h \in Handlers :
         /\ Len(started[h]) <= 2
         /\ \A i \in 1..Len(appended[h]) :
              \E k \in 1..Len(store) :
                  store[k].role = "user" /\ store[k].content = <<TextBlock(appended[h][i])>>

\* ---- C6 ----------------------------------------------------------------
\* the router finds no agent for the text in the current lookup
RoutingFails(text) ==
    \/ RoutingRule(text) = None
    \/ RoutingRule(text)[1] \notin AGENT_LOOKUP

\* the step in which invocation h, holding a thread, routes a text that fails
RoutingFailureStep(h) ==
    /\ pc[h] = "idle" /\ pc'[h] /= "idle"
    /\ thread /= NoThread
    /\ RoutingFails(user_input'[h])

\* C6: when routing fails for a user message, on_message ends with the help
\* message and leaves the thread as it was: no Message appended, no Run started.
C6_RoutingFailure ==
    [][\A h \in Handlers :
         RoutingFailureStep(h)
            => /\ pc'[h] = "done"
               /\ sent'[h] = <<Ui("Help", "", HelpText, <<>>)>>
               /\ store' = store /\ nruns' = nruns
               /\ appended'[h] = <<>> /\ started'[h] = <<>>]_vars

\* in a session with a thread a message named an agent that is missing from
\* the lookup and got the help message
C6_Witness ==
    \E h \in Handlers :
        /\ thread /= NoThread
        /\ pc[h] = "done" /\ RoutingRule(user_input[h]) /= None
        /\ RoutingRule(user_input[h])[1] \notin AGENT_LOOKUP
        /\ Last(sent[h]).kind = "Help" /\ store = <<>>

\* ---- C8 ----------------------------------------------------------------
ChatStarted == setup_state /= "init" \/ app_state /= "init"

ClaimQuestions == {"What connector should I use?"}

\* the reply text is the marker @handoff:<t>:<q>
IsMarker(reply, t, q) == reply = Some(HandoffMarker \o t \o ":" \o q)

Names == { AGENT_NAMES[k] : k \in 1..Len(AGENT_NAMES) }

\* no remote call of invocation h has raised
NoRemoteFailure(h) ==
    \A i \in 1..Len(sent[h]) :
        sent[h][i].text \notin {"create_message failed", "create_and_process_run failed",
                               "list_messages failed"}

\* C9 as stated: a reply with @handoff:<target>:<question> always leads to the
\* notice, to the question appended as one user Message and to exactly one Run
\* of the target (here even with every remote call succeeding).
C9_HandoffAlwaysRuns ==
    \A h \in Handlers : \A t \in Names, q \in ClaimQuestions :
        (pc[h] = "done" /\ IsMarker(content[h], t, q) /\ NoRemoteFailure(h))
            => /\ "HandoffNotice" \in Kinds(h)
               /\ appended[h] = <<user_input[h], q>>
               /\ Len(started[h]) = 2 /\ started[h][2].agent = t

\* the handler can take its next step
CanStep(h) == ENABLED (OnMessageRun(h) \/ OnMessageHandoff(h))

\* C9 amended: the notice is always sent; the question is appended and one
\* Run of the target started when the target is in the lookup and the
\* question's create_message succeeds, otherwise the exchange ends with
\* "Error running" with nothing more appended and no further Run; the
\* target's reply is shown as it is; never more than two Runs and three chat
\* messages per user message, and the handler is never stuck.
C9_HandoffOneLevel ==
    \A h \in Handlers :
        /\ Len(started[h]) <= 2 /\ Len(sent[h]) <= 3
        /\ pc[h] \in {"run", "handoff"} => CanStep(h)
        /\ \A t \in Names, q \in ClaimQuestions :
             (pc[h] \in {"handoff", "done"} /\ IsMarker(content[h], t, q))
                => /\ sent[h][2] = Ui("HandoffNotice", agent[h][1], q, <<t>>)
                   /\ pc[h] = "done" =>
                        \/ /\ t \in AGENT_LOOKUP
                           /\ appended[h] = <<user_input[h], q>>
                           /\ Len(started[h]) = 2 /\ started[h][2].agent = t
                           /\ Len(sent[h]) = 3
                           /\ Last(sent[h]).kind \in
                                {"HandoffResponse", "HandoffNotAnswered", "ErrorRunning"}
                        \/ /\ appended[h] = <<user_input[h]>>
                           /\ Len(started[h]) = 1
                           /\ Last(sent[h]).kind = "ErrorRunning"
                           /\ \/ t \notin AGENT_LOOKUP
                              \/ Last(sent[h]).text = "create_message failed"

\* the target of a handoff answered with a handoff marker of its own, which
\* was shown as its response after two Runs
C9_Witness ==
    \E h \in Handlers : \E t \in Names, q \in ClaimQuestions :
        /\ pc[h] = "done" /\ IsMarker(content[h], t, q) /\ agent[h] /= Some(t)
        /\ Len(started[h]) = 2 /\ started[h][2].replied
        /\ Last(sent[h]).kind = "HandoffResponse"
        /\ IsMarker(Some(Last(sent[h]).text), t, q)

\* ---- C10 ---------------------------------------------------------------
TriggerCI(text) ==
    \E phrase \in {"generate integration flow", "create integration flow document",
                   "integration flow doc", "integration flow documentation"} :
        ContainsCI(phrase, text)

\* C10: an exchange that obtained a reply text ends with the generated
\* document exactly when no handoff was requested, the routed agent is
\* "AIS Developer" and the user text holds a trigger phrase; every other
\* reply without handoff is shown verbatim; with a handoff no document is made.
C10_DocumentOrVerbatim ==
    \A h \in Handlers :
        (pc[h] = "done" /\ content[h] /= None)
            => LET handoff  == "HandoffNotice" \in Kinds(h)
                   document == /\ ~handoff /\ agent[h] = Some("AIS Developer")
                               /\ TriggerCI(user_input[h])
               IN  /\ Last(sent[h]).kind = "Document" <=> document
                   /\ document =>
                        Last(sent[h]).elements =
                            format_integration_flow_doc("Integration Flow", content[h][1])
                   /\ (~handoff /\ ~document) =>
                        Last(sent[h]) = Ui("Reply", agent[h][1], content[h][1], <<>>)
                   /\ handoff => "Document" \notin Kinds(h)

\* the message held a trigger phrase and went to "AIS Developer", whose reply
\* asked for a handoff: the handoff was answered and no document was made
C10_Witness ==
    \E h \in Handlers :
        /\ pc[h] = "done" /\ content[h] /= None
        /\ agent[h] = Some("AIS Developer") /\ TriggerCI(user_input[h])
        /\ Last(sent[h]).kind = "HandoffResponse"
        /\ "Document" \notin Kinds(h)

\* ---- C11 ---------------------------------------------------------------
\* invocation g has appended its user Message (line 187) and has not sent its
\* final response yet: it is suspended at one of its awaited sends
BetweenAppendAndResponse(g) == pc[g] \in {"run", "handoff"}

\* C11: message handling is serialized per thread: while one on_message
\* invocation is between the append of its user Message and its final
\* response, no later invocation of the same session has appended a user
\* Message or started a Run.
C11_SerializedPerThread ==
    \A g, h \in Handlers :
        (g < h /\ BetweenAppendAndResponse(g))
            => (appended[h] = <<>> /\ started[h] = <<>>)

====
